---- MODULE Spec2Model ----
(***************************************************************************)
(* Model of Scripts/wigle_processor.py: the deny-list filter, the geofence *)
(* filter, the creep detector, the encryption analyzer and the main() run. *)
(*                                                                         *)
(* Strings are sequences of code points (65 "A", 66 "B", 67 "C", 97 "a",   *)
(* 32 " ", 40 "(", 120 "x", 121 "y"), so that upper(), string comparison,  *)
(* concatenation and substring search are computed, not assumed.           *)
(* Coordinates are fixed-point numbers, in units of 1/CoordScale degree.   *)
(* Optional values are sequences of length 0 (None) or 1.                  *)
(***************************************************************************)
EXTENDS Integers, Sequences, FiniteSets, TLC

VARIABLES
    \* ---- WiGLEProcessor (filtering) ----
    location_filter,   \* WiGLEProcessor.location_filter : Optional[LocationFilter]
    filter_config,     \* WiGLEProcessor.filter_config   : Optional[FilterConfig]
    config_file,       \* the config document last given to set_filter_config
    warnings,          \* number of "Warning: ..." lines printed by FilterConfig
    aborted,           \* an exception left the program
    records,           \* filter_records: its argument, while its result is held
    location_mode,     \* filter_records: its argument, while its result is held
    filtered,          \* filter_records: its result
    pc,                \* position of the modelled component
    \* ---- CreepDetector ----
    fudge_factor,      \* CreepDetector.fudge_factor
    mac_locations,     \* CreepDetector.mac_locations: a dict, kept in insertion
                       \* order as a sequence of [mac, locations] entries
    last_location,     \* the location string of the last add_record, if any
    multi_location,    \* result of the last get_multi_location_devices call
    min_locations,     \* argument of the last get_multi_location_devices call
    added,             \* the records given to CreepDetector.add_record so far (history)
    \* ---- EncryptionAnalyzer ----
    unique_networks,   \* EncryptionAnalyzer.unique_networks
    encryption_counts, \* EncryptionAnalyzer.encryption_counts (a Counter: 0 when absent)
    enc_added,         \* the records given to EncryptionAnalyzer.add_record so far (history)
    \* ---- main() ----
    args,              \* the parsed command line
    fs,                \* the file system: resolved path -> file
    fs0,               \* the file system when the run started (history)
    all_records,       \* main: all_records
    idx,               \* main: index in args.files of the next file to read
    read_errors,       \* number of "Error reading file" lines printed
    scrub_writes       \* the write_csv_file calls so far: input name and target (history)

fvars == <<location_filter, filter_config, config_file, warnings, aborted,
           records, location_mode, filtered>>

cvars == <<fudge_factor, mac_locations, last_location, multi_location,
           min_locations, added>>

evars == <<unique_networks, encryption_counts, enc_added>>

mvars == <<args, fs, fs0, all_records, idx, read_errors, scrub_writes>>

vars == <<fvars, cvars, evars, mvars, pc>>

(***************************************************************************)
(* Bounds                                                                  *)
(***************************************************************************)
MaxRecords == 3
MaxAdds == 3
MaxEncAdds == 3
MaxFiles == 2
CoordScale == 1000

(***************************************************************************)
(* Helpers                                                                 *)
(***************************************************************************)
None == <<>>
Some(x) == <<x>>

SeqsUpTo(S, n) == UNION {[1..k -> S] : k \in 0..n}

Range(s) == {s[i] : i \in 1..Len(s)}

\* str.upper() on ASCII letters
Upper(s) == [i \in 1..Len(s) |-> IF s[i] >= 97 /\ s[i] <= 122 THEN s[i] - 32 ELSE s[i]]

\* str.lower() on ASCII letters (used only to state case-insensitive equality)
Lower(s) == [i \in 1..Len(s) |-> IF s[i] >= 65 /\ s[i] <= 90 THEN s[i] + 32 ELSE s[i]]

(***************************************************************************)
(* Input domains                                                           *)
(***************************************************************************)
WiGLERecord(m, s, a, la, lo) ==
    [mac |-> m, ssid |-> s, auth_mode |-> a, latitude |-> la, longitude |-> lo]

FilterRecordPool ==
    { WiGLERecord(<<65>>, <<120>>, "WPA2", 0, 0),
      WiGLERecord(<<97>>, <<120>>, "WPA2", 1, 1),
      WiGLERecord(<<97>>, <<66, 120>>, "WEP", 3, 1),
      WiGLERecord(<<66>>, <<120>>, "WEP", 0, 4),
      WiGLERecord(<<65>>, <<121>>, "OPEN", 1, 0) }

(***************************************************************************)
(* LocationFilter                                                          *)
(***************************************************************************)
LocationFilter(my_lat, my_long, delta) ==
    [my_lat |-> my_lat, my_long |-> my_long, delta |-> delta,
     lat_min |-> my_lat - delta, lat_max |-> my_lat + delta,
     long_min |-> my_long - delta, long_max |-> my_long + delta]

is_here(lf, record) ==
    IF record.latitude = 0 /\ record.longitude = 0
    THEN FALSE
    ELSE /\ lf.lat_min <= record.latitude /\ record.latitude <= lf.lat_max
         /\ lf.long_min <= record.longitude /\ record.longitude <= lf.long_max

\* is_not_here as the bare negation of is_here, without the sentinel test
is_not_here_bare_negation(lf, record) == ~ is_here(lf, record)

is_not_here(lf, record) ==
    IF record.latitude = 0 /\ record.longitude = 0
    THEN FALSE
    ELSE ~ is_here(lf, record)

(***************************************************************************)
(* FilterConfig                                                            *)
(***************************************************************************)
\* re.compile(pattern): a source made of literal characters compiles to a
\* literal matcher; an unbalanced "(" raises re.error.
re_compiles(pattern) == \A i \in 1..Len(pattern) : pattern[i] # 40

\* Pattern.search(s) for a literal pattern: substring search
re_search(pattern, s) ==
    \E i \in 0..(Len(s) - Len(pattern)) : SubSeq(s, i + 1, i + Len(pattern)) = pattern

\* The content of the file named by --config
ConfigDoc(k, macs, ssids, pats) ==
    [kind |-> k, blocked_macs |-> macs, blocked_ssids |-> ssids, blocked_patterns |-> pats]

ConfigFiles ==
    { ConfigDoc(k, <<>>, <<>>, <<>>) : k \in {"missing", "badjson", "notobject"} }
    \cup
    { ConfigDoc("object", macs, ssids, pats) :
        macs \in {<<>>, << <<65>> >>, << <<97>> >>},
        ssids \in {<<>>, << <<121>> >>},
        pats \in {<<>>, << <<66>> >>, << <<40>> >>, << <<40>>, <<66>> >>} }

EmptyFilterConfig ==
    [blocked_macs |-> {}, blocked_ssids |-> {}, blocked_patterns |-> <<>>]

\* The compile loop of load_config: valid patterns are appended in order
RECURSIVE compile_patterns(_)
compile_patterns(pats) ==
    IF pats = <<>> THEN <<>>
    ELSE IF re_compiles(Head(pats))
         THEN <<Head(pats)>> \o compile_patterns(Tail(pats))
         ELSE compile_patterns(Tail(pats))

invalid_patterns(pats) == Cardinality({i \in 1..Len(pats) : ~ re_compiles(pats[i])})

\* set(config.get('blocked_macs', []))
load_blocked_macs(doc) == Range(doc.blocked_macs)

\* FilterConfig.__init__ + load_config: the resulting object
FilterConfigOf(doc) ==
    IF doc.kind = "object"
    THEN [blocked_macs |-> load_blocked_macs(doc),
          blocked_ssids |-> Range(doc.blocked_ssids),
          blocked_patterns |-> compile_patterns(doc.blocked_patterns)]
    ELSE EmptyFilterConfig

\* warnings printed by FilterConfig.__init__ + load_config
load_warnings(doc) ==
    CASE doc.kind = "missing" -> 0       \* os.path.exists is false: load_config is not called
      [] doc.kind = "badjson" -> 1       \* json.JSONDecodeError is caught
      [] doc.kind = "notobject" -> 0     \* AttributeError is not caught
      [] OTHER -> invalid_patterns(doc.blocked_patterns)

\* config.get on a JSON value that is not an object raises AttributeError,
\* which load_config does not catch
load_raises(doc) == doc.kind = "notobject"

should_filter(fc, record) ==
    IF Upper(record.mac) \in fc.blocked_macs THEN TRUE
    ELSE IF record.ssid \in fc.blocked_ssids THEN TRUE
    ELSE \E i \in 1..Len(fc.blocked_patterns) :
            \/ re_search(fc.blocked_patterns[i], record.ssid)
            \/ re_search(fc.blocked_patterns[i], record.mac)

(***************************************************************************)
(* WiGLEProcessor.filter_records                                           *)
(***************************************************************************)
\* the loop body with the deny-list consulted only when no geofence mode applies
record_kept_geofence_only(fc, lf, mode, record) ==
    IF lf # None /\ mode # None
    THEN IF mode[1] = "here" /\ ~ is_here(lf[1], record) THEN FALSE
         ELSE IF mode[1] = "not_here" /\ ~ is_not_here(lf[1], record) THEN FALSE
         ELSE TRUE
    ELSE ~ (fc # None /\ should_filter(fc[1], record))

\* one iteration of the loop body: TRUE iff the record reaches filtered.append
record_kept(fc, lf, mode, record) ==
    IF fc # None /\ should_filter(fc[1], record) THEN FALSE
    ELSE IF lf # None /\ mode # None
         THEN IF mode[1] = "here" /\ ~ is_here(lf[1], record) THEN FALSE
              ELSE IF mode[1] = "not_here" /\ ~ is_not_here(lf[1], record) THEN FALSE
              ELSE TRUE
         ELSE TRUE

RECURSIVE filter_records(_, _, _, _)
filter_records(fc, lf, recs, mode) ==
    IF recs = <<>> THEN <<>>
    ELSE IF record_kept(fc, lf, mode, Head(recs))
         THEN <<Head(recs)>> \o filter_records(fc, lf, Tail(recs), mode)
         ELSE filter_records(fc, lf, Tail(recs), mode)

LocationModes == {None, Some("here"), Some("not_here")}

(***************************************************************************)
(* Specification of the filtering component                                *)
(***************************************************************************)
IdleCreep ==
    /\ fudge_factor = 100
    /\ mac_locations = <<>>
    /\ last_location = None
    /\ multi_location = <<>>
    /\ min_locations = 2
    /\ added = <<>>

AuthModes == {"WPA2", "WEP", "OPEN"}

IdleEnc ==
    /\ unique_networks = {}
    /\ encryption_counts = [a \in AuthModes |-> 0]
    /\ enc_added = <<>>

IdleMain ==
    /\ args = <<>>
    /\ fs = <<>>
    /\ fs0 = <<>>
    /\ all_records = <<>>
    /\ idx = 1
    /\ read_errors = 0
    /\ scrub_writes = <<>>

IdleFilter ==
    /\ location_filter = None
    /\ filter_config = None
    /\ config_file = None
    /\ warnings = 0
    /\ aborted = FALSE
    /\ records = <<>>
    /\ location_mode = None
    /\ filtered = <<>>

InitFilter ==
    /\ IdleFilter
    /\ IdleMain
    /\ IdleCreep
    /\ IdleEnc
    /\ pc = "ready"

SetLocationFilter ==
    /\ ~ aborted /\ pc # "filtered"
    /\ \E lat \in {1, 3}, lon \in {1}, delta \in {0, 2} :
          location_filter' = Some(LocationFilter(lat, lon, delta))
    /\ pc' = "configured"
    /\ records' = <<>> /\ location_mode' = None /\ filtered' = <<>>
    /\ UNCHANGED <<filter_config, config_file, warnings, aborted, cvars, evars, mvars>>

SetFilterConfig ==
    /\ ~ aborted /\ pc # "filtered"
    /\ \E doc \in ConfigFiles :
          /\ config_file' = Some(doc)
          /\ warnings' = load_warnings(doc)
          /\ aborted' = load_raises(doc)
          /\ filter_config' = IF load_raises(doc) THEN filter_config
                              ELSE Some(FilterConfigOf(doc))
    /\ pc' = "configured"
    /\ records' = <<>> /\ location_mode' = None /\ filtered' = <<>>
    /\ UNCHANGED <<location_filter, cvars, evars, mvars>>

FilterRecords ==
    /\ ~ aborted /\ pc # "filtered"
    /\ \E recs \in SeqsUpTo(FilterRecordPool, MaxRecords), mode \in LocationModes :
          /\ records' = recs
          /\ location_mode' = mode
          /\ filtered' = filter_records(filter_config, location_filter, recs, mode)
    /\ pc' = "filtered"
    /\ UNCHANGED <<location_filter, filter_config, config_file, warnings, aborted, cvars, evars, mvars>>

\* the caller has consumed the result; the next file's call can follow
ReturnFiltered ==
    /\ pc = "filtered"
    /\ pc' = "configured"
    /\ records' = <<>> /\ location_mode' = None /\ filtered' = <<>>
    /\ UNCHANGED <<location_filter, filter_config, config_file, warnings, aborted, cvars, evars, mvars>>

NextFilter == SetLocationFilter \/ SetFilterConfig \/ FilterRecords \/ ReturnFiltered

SpecFilter == InitFilter /\ [][NextFilter]_vars

(***************************************************************************)
(* Claims about the filtering component (checked under SpecFilter)         *)
(***************************************************************************)
CoordRecords ==
    { WiGLERecord(<<66>>, <<120>>, "WPA2", la, lo) : la \in 0..5, lo \in 0..4 }

C1_Passes(r) ==
    /\ filter_config = None \/ ~ should_filter(filter_config[1], r)
    /\ \/ location_filter = None
       \/ location_mode = None
       \/ location_mode = Some("here") /\ is_here(location_filter[1], r)
       \/ location_mode = Some("not_here") /\ is_not_here(location_filter[1], r)

\* C1: filter_records returns exactly the input records, in order and without
\* duplication, that the deny-list does not reject and that pass the geofence
\* predicate of the mode when a geofence and a mode are both configured.
C1_FilterRecordsExact ==
    pc = "filtered" => filtered = SelectSeq(records, C1_Passes)

\* a call where the deny-list drops one record, the geofence drops another
\* and a third record is kept
C1_Witness ==
    /\ pc = "filtered"
    /\ filter_config # None /\ location_filter # None /\ location_mode # None
    /\ \E i \in 1..Len(records) : should_filter(filter_config[1], records[i])
    /\ \E i \in 1..Len(records) :
          /\ ~ should_filter(filter_config[1], records[i])
          /\ ~ C1_Passes(records[i])
    /\ Len(filtered) = 1 /\ Len(records) = 3

\* C2: the (0,0) sentinel is neither here nor not-here; every other record is
\* exactly one of the two, and here iff both coordinates are within
\* [lat-delta, lat+delta] x [lon-delta, lon+delta], bounds included.
C2_GeofencePartition ==
    \A r \in CoordRecords \cup Range(records) :
        (location_filter # None /\ location_filter[1].delta >= 0) =>
            LET lf == location_filter[1]
                inside == /\ lf.my_lat - lf.delta <= r.latitude
                          /\ r.latitude <= lf.my_lat + lf.delta
                          /\ lf.my_long - lf.delta <= r.longitude
                          /\ r.longitude <= lf.my_long + lf.delta
            IN IF r.latitude = 0 /\ r.longitude = 0
               THEN ~ is_here(lf, r) /\ ~ is_not_here(lf, r)
               ELSE /\ is_here(lf, r) # is_not_here(lf, r)
                    /\ is_here(lf, r) = inside

\* a not_here scrub with the sentinel inside the box: the sentinel and a
\* record inside the box are dropped, a record outside is kept
C2_Witness ==
    /\ pc = "filtered" /\ filter_config = None
    /\ location_filter # None /\ location_mode = Some("not_here")
    /\ location_filter[1].lat_min <= 0 /\ location_filter[1].long_min <= 0
    /\ \E i \in 1..Len(records) : records[i].latitude = 0 /\ records[i].longitude = 0
    /\ \E i \in 1..Len(records) : is_here(location_filter[1], records[i])
    /\ Len(filtered) = 1 /\ Len(records) = 3

\* C3: every MAC listed under blocked_macs, in any letter case, blocks every
\* record whose mac equals it ignoring letter case.
C3_MacMatchIgnoresCase ==
    (config_file # None /\ filter_config # None /\ ~ aborted
        /\ config_file[1].kind = "object") =>
        \A m \in Range(config_file[1].blocked_macs) :
            \A r \in FilterRecordPool :
                Lower(r.mac) = Lower(m) => should_filter(filter_config[1], r)

\* C7: loading the config never aborts; a missing or unusable config gives a
\* warning and a filter that blocks nothing; an invalid pattern is skipped
\* with a warning and every other rule stays in force.
C7_ConfigLoadNonFatal ==
    /\ ~ aborted
    /\ config_file # None =>
          LET doc == config_file[1] IN
          IF doc.kind # "object"
          THEN /\ warnings >= 1
               /\ filter_config # None
               /\ \A r \in FilterRecordPool : ~ should_filter(filter_config[1], r)
          ELSE /\ warnings = invalid_patterns(doc.blocked_patterns)
               /\ filter_config # None
               /\ Range(filter_config[1].blocked_patterns) =
                     {p \in Range(doc.blocked_patterns) : re_compiles(p)}
               /\ filter_config[1].blocked_ssids = Range(doc.blocked_ssids)

(***************************************************************************)
(* CreepDetector                                                           *)
(***************************************************************************)
Abs(n) == IF n < 0 THEN -n ELSE n

\* int() taken for a floor
int_of_as_floor(num, den) == num \div den

\* int(x) for x = num/den, den > 0: truncation toward zero
int_of(num, den) == IF num >= 0 THEN num \div den ELSE -((-num) \div den)

\* math.floor(x) for x = num/den, den > 0
floor_of(num, den) == num \div den

\* decimal digits of a natural number
RECURSIVE Digits(_)
Digits(n) == IF n < 10 THEN <<48 + n>> ELSE Digits(n \div 10) \o <<48 + (n % 10)>>

\* f"{n / F:.2f}" for an integer n and a fudge factor F that divides 100:
\* n / F has at most two decimals, which the format prints exactly
format_2f(n, F) ==
    LET h == Abs(n) * (100 \div F)
    IN (IF n < 0 THEN <<45>> ELSE <<>>)
       \o Digits(h \div 100) \o <<46>> \o <<48 + ((h % 100) \div 10), 48 + (h % 10)>>

\* int((record.latitude * fudge_factor) + 0.5), a coordinate c being c/CoordScale
rounded_lat(record, F) ==
    int_of(2 * record.latitude * F + CoordScale, 2 * CoordScale)

\* int((record.longitude * fudge_factor) - 0.5)
rounded_lon(record, F) ==
    int_of(2 * record.longitude * F - CoordScale, 2 * CoordScale)

\* location = f"{lat:.2f} {lon:.2f}"
location_of(record, F) ==
    format_2f(rounded_lat(record, F), F) \o <<32>> \o format_2f(rounded_lon(record, F), F)

is_sentinel(record) == record.latitude = 0 /\ record.longitude = 0

\* self.mac_locations[record.mac].add(location) on the ordered dict
dict_add(d, mac, location) ==
    IF \E i \in 1..Len(d) : d[i].mac = mac
    THEN [i \in 1..Len(d) |->
            IF d[i].mac = mac
            THEN [mac |-> mac, locations |-> d[i].locations \cup {location}]
            ELSE d[i]]
    ELSE Append(d, [mac |-> mac, locations |-> {location}])

add_record(d, record, F) ==
    IF is_sentinel(record) THEN d
    ELSE dict_add(d, record.mac, location_of(record, F))

\* str < str: lexicographic on code points, a proper prefix is smaller
RECURSIVE str_less(_, _)
str_less(a, b) ==
    IF b = <<>> THEN FALSE
    ELSE IF a = <<>> THEN TRUE
    ELSE IF Head(a) # Head(b) THEN Head(a) < Head(b)
    ELSE str_less(Tail(a), Tail(b))

\* tuple < tuple for (count, mac) pairs
tuple_less(x, y) == x[1] < y[1] \/ (x[1] = y[1] /\ str_less(x[2], y[2]))

RECURSIVE insert_sorted(_, _)
insert_sorted(x, s) ==
    IF s = <<>> THEN <<x>>
    ELSE IF tuple_less(x, Head(s)) THEN <<x>> \o s
    ELSE <<Head(s)>> \o insert_sorted(x, Tail(s))

RECURSIVE sort_ascending(_)
sort_ascending(s) ==
    IF s = <<>> THEN <<>> ELSE insert_sorted(Head(s), sort_ascending(Tail(s)))

Reverse(s) == [i \in 1..Len(s) |-> s[Len(s) + 1 - i]]

\* sorted(results) without reverse=True
sorted_not_reversed(s) == sort_ascending(s)

\* sorted(results, reverse=True); the results are pairwise distinct
sorted_reverse(s) == Reverse(sort_ascending(s))

\* the loop of get_multi_location_devices over mac_locations.items()
RECURSIVE collect_results(_, _)
collect_results(d, min) ==
    IF d = <<>> THEN <<>>
    ELSE IF Cardinality(Head(d).locations) >= min
         THEN << <<Cardinality(Head(d).locations), Head(d).mac>> >>
              \o collect_results(Tail(d), min)
         ELSE collect_results(Tail(d), min)

get_multi_location_devices(d, min) == sorted_reverse(collect_results(d, min))

CreepRecordPool ==
    { WiGLERecord(<<65>>, <<120>>, "WPA2", 0, 0),        \* "A", no fix
      WiGLERecord(<<65>>, <<120>>, "WPA2", 4, 16),
      WiGLERecord(<<65>>, <<120>>, "WPA2", 6, 16),
      WiGLERecord(<<65>>, <<121>>, "WPA2", 16, 4),
      WiGLERecord(<<97>>, <<120>>, "WEP", -6, 4),        \* "a"
      WiGLERecord(<<97>>, <<120>>, "WEP", -16, -16),
      WiGLERecord(<<65, 66>>, <<120>>, "OPEN", 0, 16),   \* "AB"
      WiGLERecord(<<65, 66>>, <<120>>, "OPEN", -6, 16) }

InitCreep ==
    /\ IdleFilter
    /\ IdleMain
    /\ IdleEnc
    /\ fudge_factor \in {10, 100}
    /\ mac_locations = <<>>
    /\ last_location = None
    /\ multi_location = <<>>
    /\ min_locations = 2
    /\ added = <<>>
    /\ pc = "ready"

AddRecord ==
    /\ Len(added) < MaxAdds
    /\ \E record \in CreepRecordPool :
          /\ mac_locations' = add_record(mac_locations, record, fudge_factor)
          /\ last_location' = IF is_sentinel(record) THEN None
                              ELSE Some(location_of(record, fudge_factor))
          /\ added' = Append(added, record)
    /\ multi_location' = <<>>
    /\ pc' = "adding"
    /\ UNCHANGED <<fudge_factor, min_locations, fvars, evars, mvars>>

GetMultiLocationDevices ==
    /\ pc # "ranked"
    /\ \E min \in 1..3 :
          /\ min_locations' = min
          /\ multi_location' = get_multi_location_devices(mac_locations, min)
    /\ pc' = "ranked"
    /\ UNCHANGED <<fudge_factor, mac_locations, last_location, added, fvars, evars, mvars>>

NextCreep == AddRecord \/ GetMultiLocationDevices

SpecCreep == InitCreep /\ [][NextCreep]_vars

(***************************************************************************)
(* Claims about the creep detector (checked under SpecCreep)               *)
(***************************************************************************)
C4_Fingerprints(mac) ==
    { location_of(added[i], fudge_factor) :
        i \in {j \in 1..Len(added) : added[j].mac = mac /\ ~ is_sentinel(added[j])} }

\* C4: get_multi_location_devices returns one (count, mac) pair for exactly
\* the MACs with at least min_locations distinct fingerprints among the
\* non-sentinel records added, count being that number, ordered by
\* non-increasing count and, for equal counts, non-increasing MAC string.
C4_MultiLocationRanking ==
    pc = "ranked" =>
        /\ Range(multi_location) =
              { <<Cardinality(C4_Fingerprints(r.mac)), r.mac>> :
                  r \in {x \in Range(added) :
                            Cardinality(C4_Fingerprints(x.mac)) >= min_locations} }
        /\ \A i, j \in 1..Len(multi_location) :
              i < j =>
                 /\ multi_location[i][2] # multi_location[j][2]
                 /\ multi_location[i][1] >= multi_location[j][1]
                 /\ multi_location[i][1] = multi_location[j][1] =>
                       str_less(multi_location[j][2], multi_location[i][2])

\* a repeated sighting, a sentinel-free tie in count between two MACs and a
\* ranking that lists both
C4_Witness ==
    /\ pc = "ranked" /\ min_locations = 1
    /\ Len(multi_location) = 2
    /\ multi_location[1][1] = multi_location[2][1]
    /\ \E i, j \in 1..Len(added) : i < j /\ added[i] = added[j] /\ ~ is_sentinel(added[i])

\* the integer obtained from num/den (den > 0) by dropping the fraction
C5_Truncated(num, den) ==
    CHOOSE n \in -(Abs(num) \div den + 1)..(Abs(num) \div den + 1) :
        IF num >= 0
        THEN n * den <= num /\ num < (n + 1) * den
        ELSE (n - 1) * den < num /\ num <= n * den

\* C5 (as stated): the fingerprint inserted for a non-sentinel record is built
\* from floor(lat*F + 0.5)/F and floor(lon*F - 0.5)/F (mathematical floor).
C5_FloorRounding ==
    (last_location # None /\ added # <<>>) =>
        LET record == added[Len(added)]
            F == fudge_factor
        IN last_location[1] =
              format_2f(floor_of(2 * record.latitude * F + CoordScale, 2 * CoordScale), F)
              \o <<32>> \o
              format_2f(floor_of(2 * record.longitude * F - CoordScale, 2 * CoordScale), F)

\* C5 (amended): the fingerprint inserted for a non-sentinel record is built
\* from lat*F + 0.5 and lon*F - 0.5 truncated toward zero, divided by F.
C5_TruncatedRounding ==
    (last_location # None /\ added # <<>>) =>
        LET record == added[Len(added)]
            F == fudge_factor
        IN last_location[1] =
              format_2f(C5_Truncated(2 * record.latitude * F + CoordScale, 2 * CoordScale), F)
              \o <<32>> \o
              format_2f(C5_Truncated(2 * record.longitude * F - CoordScale, 2 * CoordScale), F)

\* a record whose lat*F + 0.5 and lon*F - 0.5 are both negative and not
\* integers has been added: truncation and floor differ on both
C5_Witness ==
    /\ last_location # None /\ added # <<>> /\ fudge_factor = 100
    /\ LET record == added[Len(added)]
       IN /\ 2 * record.latitude * fudge_factor + CoordScale < 0
          /\ 2 * record.longitude * fudge_factor - CoordScale < 0
          /\ mac_locations # <<>>
          /\ last_location[1] \in mac_locations[Len(mac_locations)].locations
          /\ ~ C5_FloorRounding

(***************************************************************************)
(* EncryptionAnalyzer                                                      *)
(***************************************************************************)
\* network_id = f"{record.mac} {record.ssid}"
network_id(record) == record.mac \o <<32>> \o record.ssid

\* EncryptionAnalyzer.add_record on the pair (unique_networks, encryption_counts)
enc_add_record(networks, counts, record) ==
    IF network_id(record) \notin networks
    THEN [networks |-> networks \cup {network_id(record)},
          counts |-> [counts EXCEPT ![record.auth_mode] = @ + 1]]
    ELSE [networks |-> networks, counts |-> counts]

\* sum(self.encryption_counts.values())
RECURSIVE sum_counts(_, _)
sum_counts(counts, modes) ==
    IF modes = {} THEN 0
    ELSE LET a == CHOOSE x \in modes : TRUE
         IN counts[a] + sum_counts(counts, modes \ {a})

EncRecordPool ==
    { WiGLERecord(<<65>>, <<120>>, "WPA2", 4, 16),            \* "A", "x"
      WiGLERecord(<<65>>, <<120>>, "WEP", 6, 16),             \* "A", "x" seen again
      WiGLERecord(<<97>>, <<120>>, "OPEN", 0, 0),             \* "a", "x"
      WiGLERecord(<<65>>, <<66, 32, 67>>, "WPA2", 4, 16),     \* "A", "B C"
      WiGLERecord(<<65, 32, 66>>, <<67>>, "WEP", 4, 16) }     \* "A B", "C"

InitEnc ==
    /\ IdleFilter
    /\ IdleMain
    /\ IdleCreep
    /\ IdleEnc
    /\ pc = "ready"

EncAddRecord ==
    /\ Len(enc_added) < MaxEncAdds
    /\ \E record \in EncRecordPool :
          LET r == enc_add_record(unique_networks, encryption_counts, record)
          IN /\ unique_networks' = r.networks
             /\ encryption_counts' = r.counts
             /\ enc_added' = Append(enc_added, record)
    /\ pc' = "adding"
    /\ UNCHANGED <<fvars, cvars, mvars>>

NextEnc == EncAddRecord

SpecEnc == InitEnc /\ [][NextEnc]_vars

(***************************************************************************)
(* Claims about the encryption analyzer (checked under SpecEnc)            *)
(***************************************************************************)
\* C6: the sum of all auth-mode counts equals the number of distinct
\* (mac, ssid) pairs among the records added, for all mac and ssid strings.
C6_CountsDistinctPairs ==
    sum_counts(encryption_counts, AuthModes) =
        Cardinality({ <<enc_added[i].mac, enc_added[i].ssid>> : i \in 1..Len(enc_added) })

(***************************************************************************)
(* CSV files, paths and the file system                                    *)
(***************************************************************************)
\* A CSV field holding a coordinate: empty, a numeral, or other text
EmptyField == [t |-> "empty", v |-> 0]
NumField(v) == [t |-> "num", v |-> v]
BadField == [t |-> "bad", v |-> 0]

\* A line of a file: "text" (fewer than 11 fields, no MAC/SSID tokens),
\* "header" (contains MAC and SSID; 11 fields when it is the WiGLE header),
\* "row" (11 fields or more), "short" (a data row of fewer than 11 fields)
Line(k, m, s, a, la, lo) ==
    [kind |-> k, mac |-> m, ssid |-> s, auth_mode |-> a, lat |-> la, lon |-> lo]
TextLine == Line("text", <<>>, <<>>, "", EmptyField, EmptyField)
HeaderLine == Line("header", <<77, 65, 67>>, <<83, 83, 73, 68>>, "AuthMode", BadField, BadField)
ShortRow == Line("short", <<66>>, <<120>>, "WEP", EmptyField, EmptyField)
Row(m, s, a, la, lo) == Line("row", m, s, a, la, lo)

\* float(row[6]) if row[6] else 0.0 ; "bad" raises ValueError
field_parses(f) == f.t # "bad"
field_value(f) == IF f.t = "num" THEN f.v ELSE 0

\* WiGLERecord.from_csv_row: None, or the record
from_csv_row(line) ==
    IF line.kind \in {"text", "short"} THEN None
    ELSE IF field_parses(line.lat) /\ field_parses(line.lon)
         THEN Some(WiGLERecord(line.mac, line.ssid, line.auth_mode,
                               field_value(line.lat), field_value(line.lon)))
         ELSE None

\* index of the line after the first header line, 0-based; 0 without header
data_start(lines) ==
    IF \E i \in 1..Len(lines) : lines[i].kind = "header"
    THEN CHOOSE i \in 1..Len(lines) :
            /\ lines[i].kind = "header"
            /\ \A j \in 1..(i - 1) : lines[j].kind # "header"
    ELSE 0

RECURSIVE parse_rows(_)
parse_rows(lines) ==
    IF lines = <<>> THEN <<>>
    ELSE from_csv_row(Head(lines)) \o parse_rows(Tail(lines))

\* A path as pathlib keeps it: absolute or not, and its components
Path(a, parts) == [abs |-> a, parts |-> parts]

\* Path(output_dir) / filename: an absolute right operand replaces the left
path_join(dir, name) ==
    IF name.abs THEN name ELSE Path(dir.abs, dir.parts \o name.parts)

Cwd == <<"w">>

\* the file a path names when opened from the working directory
resolve(p) == IF p.abs THEN p.parts ELSE Cwd \o p.parts

File(k, lines) == [kind |-> k, lines |-> lines]

\* WiGLEProcessor.read_csv_file on the file system f:
\* raised: an exception other than FileNotFoundError/UnicodeDecodeError
\* left the method; error: "Error reading file" was printed
read_csv_file(f, filename) ==
    LET p == resolve(filename) IN
    IF p \notin DOMAIN f
    THEN [records |-> <<>>, error |-> TRUE, raised |-> FALSE]     \* FileNotFoundError
    ELSE IF f[p].kind = "undecodable"
    THEN [records |-> <<>>, error |-> TRUE, raised |-> FALSE]     \* UnicodeDecodeError
    ELSE IF f[p].kind = "unreadable"
    THEN [records |-> <<>>, error |-> FALSE, raised |-> TRUE]     \* PermissionError
    ELSE [records |-> parse_rows(SubSeq(f[p].lines, data_start(f[p].lines) + 1,
                                        Len(f[p].lines))),
          error |-> FALSE, raised |-> FALSE]

\* the lines write_csv_file writes
RECURSIVE record_rows(_)
record_rows(recs) ==
    IF recs = <<>> THEN <<>>
    ELSE << Row(Head(recs).mac, Head(recs).ssid, Head(recs).auth_mode,
                NumField(Head(recs).latitude), NumField(Head(recs).longitude)) >>
         \o record_rows(Tail(recs))

csv_lines(recs) == <<TextLine, HeaderLine>> \o record_rows(recs)

\* WiGLEProcessor.write_csv_file on the file system f
write_csv_file(f, filename, recs) ==
    LET p == resolve(filename)
    IN [q \in DOMAIN f \cup {p} |-> IF q = p THEN File("file", csv_lines(recs)) ELSE f[q]]

(***************************************************************************)
(* main()                                                                  *)
(***************************************************************************)
ContentA ==
    << TextLine, HeaderLine,
       Row(<<65>>, <<120>>, "WPA2", NumField(4), NumField(16)),
       ShortRow,
       Row(<<97>>, <<66, 120>>, "WEP", NumField(-6), NumField(4)),
       Row(<<66>>, <<121>>, "OPEN", EmptyField, EmptyField) >>

\* a file without header line
ContentB ==
    << Row(<<66>>, <<120>>, "WEP", NumField(16), NumField(4)),
       Row(<<66>>, <<120>>, "WEP", BadField, NumField(4)) >>

ContentC ==
    << HeaderLine, Row(<<65>>, <<121>>, "OPEN", NumField(6), NumField(16)) >>

FileA == <<"w", "a.csv">>
FileB == <<"w", "b.csv">>
FileC == <<"w", "Scrub", "a.csv">>

\* the file systems a run can start in
FileSystems ==
    { [p \in {FileA} \cup (IF b = None THEN {} ELSE {FileB}) \cup (IF c THEN {FileC} ELSE {})
         |-> IF p = FileA THEN File("file", ContentA)
             ELSE IF p = FileB THEN b[1]
             ELSE File("file", ContentC)] :
        b \in {None, Some(File("file", ContentB)), Some(File("undecodable", <<>>)),
               Some(File("unreadable", <<>>))},
        c \in BOOLEAN }

FileNames ==
    { Path(FALSE, <<"a.csv">>), Path(TRUE, <<"w", "a.csv">>),
      Path(FALSE, <<"b.csv">>), Path(FALSE, <<"Scrub", "a.csv">>) }

OutputDirs == { Path(FALSE, <<"Scrub">>), Path(TRUE, <<"o">>) }

BlockA == ConfigDoc("object", << <<65>> >>, <<>>, <<>>)

Args ==
    [ files : SeqsUpTo(FileNames, MaxFiles),
      scrub : BOOLEAN, creeps : BOOLEAN, encryption : BOOLEAN,
      here : BOOLEAN, not_here : BOOLEAN,
      location : {None, Some(<<4, 16, 2>>)},
      config : {None, Some(BlockA)},
      output_dir : OutputDirs ]

\* feeding a list of records to a CreepDetector
RECURSIVE creep_feed(_, _, _)
creep_feed(d, recs, F) ==
    IF recs = <<>> THEN d
    ELSE creep_feed(add_record(d, Head(recs), F), Tail(recs), F)

\* feeding a list of records to an EncryptionAnalyzer
RECURSIVE enc_feed(_, _, _)
enc_feed(networks, counts, recs) ==
    IF recs = <<>> THEN [networks |-> networks, counts |-> counts]
    ELSE LET r == enc_add_record(networks, counts, Head(recs))
         IN enc_feed(r.networks, r.counts, Tail(recs))

\* lines 371-375: --here takes priority over --not-here
mode_of(a) ==
    IF a.here THEN Some("here") ELSE IF a.not_here THEN Some("not_here") ELSE None

InitMain ==
    /\ IdleFilter
    /\ IdleCreep
    /\ IdleEnc
    /\ args \in Args
    /\ fs0 \in FileSystems
    /\ fs = fs0
    /\ all_records = <<>>
    /\ idx = 1
    /\ read_errors = 0
    /\ scrub_writes = <<>>
    /\ pc = "start"

\* lines 347-349: no files, "No CSV files found", return
MainNoFiles ==
    /\ pc = "start" /\ args.files = <<>>
    /\ pc' = "done"
    /\ UNCHANGED <<fvars, cvars, evars, mvars>>

\* lines 351-361: the processor and its filters
MainSetup ==
    /\ pc = "start" /\ args.files # <<>>
    /\ location_filter' =
          IF args.location # None
          THEN Some(LocationFilter(args.location[1][1], args.location[1][2],
                                   args.location[1][3]))
          ELSE None
    /\ IF args.config # None
       THEN /\ config_file' = args.config
            /\ warnings' = load_warnings(args.config[1])
            /\ aborted' = load_raises(args.config[1])
            /\ filter_config' = IF load_raises(args.config[1]) THEN None
                                ELSE Some(FilterConfigOf(args.config[1]))
       ELSE UNCHANGED <<config_file, warnings, aborted, filter_config>>
    /\ pc' = IF aborted' THEN "aborted" ELSE "reading"
    /\ UNCHANGED <<records, location_mode, filtered, cvars, evars, mvars>>

\* lines 364-382: one iteration of the loop over args.files
ProcessFile ==
    /\ pc = "reading" /\ idx <= Len(args.files)
    /\ LET filename == args.files[idx]
           rd == read_csv_file(fs, filename)
           output_file == path_join(args.output_dir, filename)
           kept == filter_records(filter_config, location_filter, rd.records,
                                  mode_of(args))
       IN IF rd.raised
          THEN /\ aborted' = TRUE
               /\ pc' = "aborted"
               /\ UNCHANGED <<records, location_mode, filtered, fs, all_records,
                              idx, read_errors, scrub_writes>>
          ELSE /\ records' = rd.records
               /\ all_records' = all_records \o rd.records
               /\ read_errors' = read_errors + (IF rd.error THEN 1 ELSE 0)
               /\ IF args.scrub
                  THEN /\ location_mode' = mode_of(args)
                       /\ filtered' = kept
                       /\ fs' = write_csv_file(fs, output_file, kept)
                       /\ scrub_writes' = Append(scrub_writes,
                                             [input |-> filename,
                                              target |-> resolve(output_file)])
                  ELSE UNCHANGED <<location_mode, filtered, fs, scrub_writes>>
               /\ idx' = idx + 1
               /\ pc' = IF idx = Len(args.files) THEN "creeps" ELSE "reading"
               /\ UNCHANGED aborted
    /\ UNCHANGED <<location_filter, filter_config, config_file, warnings,
                   cvars, evars, args, fs0>>

\* lines 385-405: the creep analysis
MainCreeps ==
    /\ pc = "creeps"
    /\ IF args.creeps
       THEN /\ mac_locations' = creep_feed(<<>>, all_records, fudge_factor)
            /\ added' = all_records
            /\ multi_location' =
                  get_multi_location_devices(mac_locations', min_locations)
       ELSE UNCHANGED <<mac_locations, added, multi_location>>
    /\ pc' = "encryption"
    /\ UNCHANGED <<fudge_factor, last_location, min_locations, fvars, evars, mvars>>

\* lines 407-418: the encryption analysis
MainEncryption ==
    /\ pc = "encryption"
    /\ IF args.encryption
       THEN LET r == enc_feed({}, [a \in AuthModes |-> 0], all_records)
            IN /\ unique_networks' = r.networks
               /\ encryption_counts' = r.counts
               /\ enc_added' = all_records
       ELSE UNCHANGED evars
    /\ pc' = "done"
    /\ UNCHANGED <<fvars, cvars, mvars>>

NextMain == MainNoFiles \/ MainSetup \/ ProcessFile \/ MainCreeps \/ MainEncryption

SpecMain == InitMain /\ [][NextMain]_vars

(***************************************************************************)
(* Claims about the run (checked under SpecMain)                           *)
(***************************************************************************)
IsPrefix(a, b) == Len(a) <= Len(b) /\ SubSeq(b, 1, Len(a)) = a

\* C8: every scrubbed CSV is written under the output directory, at a path
\* mirroring the input file name, and never onto the input file itself.
C8_ScrubOutputUnderOutputDir ==
    \A i \in 1..Len(scrub_writes) :
        LET w == scrub_writes[i]
            dir == resolve(args.output_dir)
        IN /\ IsPrefix(dir, w.target) /\ Len(w.target) > Len(dir)
           /\ w.target[Len(w.target)] = w.input.parts[Len(w.input.parts)]
           /\ w.target # resolve(w.input)

\* the files of args.files that cannot be read, among the first n
C9_Failing(n) ==
    { i \in 1..n : \/ resolve(args.files[i]) \notin DOMAIN fs0
                   \/ fs0[resolve(args.files[i])].kind # "file" }

\* C9: a file that cannot be read gives a printed warning and no records,
\* and the run goes on with the files after it.
C9_ReadFailureNonFatal ==
    pc # "start" =>
        /\ ~ aborted
        /\ ~ args.scrub => read_errors = Cardinality(C9_Failing(idx - 1))

\* the records of the input files as they were when the run started
RECURSIVE C10_Expected(_)
C10_Expected(files) ==
    IF files = <<>> THEN <<>>
    ELSE read_csv_file(fs0, Head(files)).records \o C10_Expected(Tail(files))

\* C10: the analyses consume every record of every input file, in file order
\* then row order, whatever --scrub, the deny-list and the geofence mode are.
\* (stated for the runs whose input files are all readable at the start)
C10_AnalysesSeeAllRecords ==
    (pc = "done" /\ args.files # <<>> /\ C9_Failing(Len(args.files)) = {}) =>
        /\ args.creeps => added = C10_Expected(args.files)
        /\ args.encryption => enc_added = C10_Expected(args.files)

====
